---- MODULE Spec2Model ----
(***************************************************************************)
(* Model of the linear-system solver of wasm-lin-solve (src/src/solver.rs)  *)
(* and of the pipeline that drives it (src/src/lib.rs, MatrixSolver::solve):*)
(*   CoefficientMatrix::new / add_equation / validate / convert / solve.    *)
(*                                                                          *)
(* Scalars.  The type parameter T is bounded by num::traits::real::Real,    *)
(* which only the IEEE floating-point types implement, and lib.rs uses f64. *)
(* A scalar is modelled as a pair <<p, q>>:                                 *)
(*   q > 0          the exact rational p/q in lowest terms,                 *)
(*   <<0, 0>>       NaN,                                                    *)
(*   <<1, 0>>, <<-1, 0>>   +infinity, -infinity.                            *)
(* Finite arithmetic is exact (no rounding); the non-finite values follow   *)
(* IEEE 754.  The sign of zero is not modelled (it is observable only in    *)
(* the sign of x/0 for x # 0).                                              *)
(*                                                                          *)
(* Indices are 0-based as in the source; row r of a matrix m is m[r + 1].   *)
(***************************************************************************)
EXTENDS Integers, Sequences, FiniteSets, TLC

VARIABLES
    size,     \* CoefficientMatrix.size
    matrix,   \* CoefficientMatrix.matrix: sequence of Equations
    pc,       \* which stage runs next: "build", "convert", "solve", "end"
    ret,      \* the Result returned by each stage so far
    a,        \* convert: the pivot column of the outer loop
    phase,    \* convert: "select" (lines 142-150) or "eliminate" (152-160)
    pivot,    \* convert: the local variable pivot
    i,        \* solve: the row of the outer loop
    given,    \* the matrix as the caller built it (kept to state the claims)
    before    \* the matrix as it was when the last pivot selection began

vars == <<size, matrix, pc, ret, a, phase, pivot, i, given, before>>

(***************************************************************************)
(* Bounds of the model                                                      *)
(***************************************************************************)
\* largest dimension of a system handed to the pipeline or to solve
MaxN == 3
\* the equations of such a system have integer entries whose absolute values
\* sum to at most MaxWeight
MaxWeight == 4

(***************************************************************************)
(* Scalars                                                                  *)
(***************************************************************************)
NaN == <<0, 0>>

Zero == <<0, 1>>

One == <<1, 1>>

AbsInt(x) == IF x < 0 THEN -x ELSE x

Sgn(x) == IF x < 0 THEN -1 ELSE IF x = 0 THEN 0 ELSE 1

RECURSIVE Gcd(_, _)
Gcd(x, y) == IF y = 0 THEN x ELSE Gcd(y, x % y)

\* the rational p/q (q # 0) in lowest terms with a positive denominator
Norm(p, q) ==
    LET g == Gcd(AbsInt(p), AbsInt(q))
    IN  <<(Sgn(q) * p) \div g, AbsInt(q) \div g>>

FromInt(v) == <<v, 1>>

IsNaN(x) == x = NaN

IsInf(x) == x[2] = 0 /\ x[1] # 0

\* Zero::is_zero (solver.rs:170-171): x == 0.0
IsZero(x) == x = Zero

\* Real::abs (solver.rs:146)
Abs(x) == <<AbsInt(x[1]), x[2]>>

\* PartialOrd::gt on T (solver.rs:146): false when either side is NaN
Gt(x, y) ==
    IF IsNaN(x) \/ IsNaN(y) THEN FALSE
    ELSE IF IsInf(x) THEN x[1] = 1 /\ y # x
    ELSE IF IsInf(y) THEN y[1] = -1
    ELSE x[1] * y[2] > y[1] * x[2]

\* Mul::mul on T (solver.rs:155, 158, 190, 193)
Mul(x, y) ==
    IF IsNaN(x) \/ IsNaN(y) THEN NaN
    ELSE IF IsInf(x) \/ IsInf(y) THEN <<Sgn(x[1]) * Sgn(y[1]), 0>>
    ELSE Norm(x[1] * y[1], x[2] * y[2])

\* SubAssign::sub_assign on T (solver.rs:156, 159, 191, 194)
Sub(x, y) ==
    IF IsNaN(x) \/ IsNaN(y) THEN NaN
    ELSE IF IsInf(x) THEN (IF y = x THEN NaN ELSE x)
    ELSE IF IsInf(y) THEN <<-y[1], 0>>
    ELSE Norm(x[1] * y[2] - y[1] * x[2], x[2] * y[2])

\* Div::div on T (solver.rs:153, 180, 183)
Div(x, y) ==
    IF IsNaN(x) \/ IsNaN(y) THEN NaN
    ELSE IF IsInf(x) THEN (IF IsInf(y) THEN NaN
                           ELSE <<x[1] * (IF y[1] < 0 THEN -1 ELSE 1), 0>>)
    ELSE IF IsInf(y) THEN Zero
    ELSE IF y[1] = 0 THEN <<Sgn(x[1]), 0>>
    ELSE Norm(x[1] * y[2], x[2] * y[1])

(***************************************************************************)
(* Equation and CoefficientMatrix                                           *)
(***************************************************************************)
\* Equation::new
Equation(coefficients, result) ==
    [coefficients |-> coefficients, result |-> result]

\* self.matrix[r].get(c)
Get(m, r, c) == m[r + 1].coefficients[c + 1]

\* self.matrix[r].get_result()
GetResult(m, r) == m[r + 1].result

\* Vec::swap
Swap(m, x, y) == [m EXCEPT ![x + 1] = m[y + 1], ![y + 1] = m[x + 1]]

\* the value of type CoefficientMatrix
CoefficientMatrix(n, m) == [size |-> n, matrix |-> m]

Ok(n, m) == [tag |-> "Ok", value |-> CoefficientMatrix(n, m)]

Err(e) == [tag |-> "Err", err |-> e]

None == [tag |-> "None"]

TooSmall(n) == [kind |-> "TooSmall", args |-> <<n>>]

UnfittingEquationAmount(amount, n) ==
    [kind |-> "UnfittingEquationAmount", args |-> <<amount, n>>]

UnfittingCoefficientAmount(amount, n) ==
    [kind |-> "UnfittingCoefficientAmount", args |-> <<amount, n>>]

DependentSolutionSet == [kind |-> "DependentSolutionSet", args |-> <<>>]

EmptySolutionSet == [kind |-> "EmptySolutionSet", args |-> <<>>]

(***************************************************************************)
(* validate (solver.rs:117-136)                                             *)
(***************************************************************************)
\* the for loop of lines 124-128 from row k on; unfitting_amount is <<>> for
\* None and <<len>> for Some(len)
\* variant of ScanRows that keeps the first unfitting length instead of the last
RECURSIVE ScanRowsFirstWins(_, _, _, _)
ScanRowsFirstWins(m, n, k, unfitting_amount) ==
    IF k >= Len(m) THEN unfitting_amount
    ELSE IF Len(m[k + 1].coefficients) # n /\ unfitting_amount = <<>>
         THEN ScanRowsFirstWins(m, n, k + 1, <<Len(m[k + 1].coefficients)>>)
         ELSE ScanRowsFirstWins(m, n, k + 1, unfitting_amount)

RECURSIVE ScanRows(_, _, _, _)
ScanRows(m, n, k, unfitting_amount) ==
    IF k >= Len(m) THEN unfitting_amount
    ELSE IF Len(m[k + 1].coefficients) # n
         THEN ScanRows(m, n, k + 1, <<Len(m[k + 1].coefficients)>>)
         ELSE ScanRows(m, n, k + 1, unfitting_amount)

\* variant of Validate that compares the row count before the size
ValidateCountFirst(n, m) ==
    IF Len(m) # n THEN Err(UnfittingEquationAmount(Len(m), n))
    ELSE IF n < 1 THEN Err(TooSmall(n))
    ELSE LET unfitting_amount == ScanRows(m, n, 0, <<>>)
         IN  IF unfitting_amount # <<>>
             THEN Err(UnfittingCoefficientAmount(unfitting_amount[1], n))
             ELSE Ok(n, m)

\* variant of Validate that scans all rows but the last
ValidateSkipLast(n, m) ==
    IF n < 1 THEN Err(TooSmall(n))
    ELSE IF Len(m) = n
         THEN LET unfitting_amount == ScanRows(SubSeq(m, 1, Len(m) - 1), n, 0, <<>>)
              IN  IF unfitting_amount # <<>>
                  THEN Err(UnfittingCoefficientAmount(unfitting_amount[1], n))
                  ELSE Ok(n, m)
         ELSE Err(UnfittingEquationAmount(Len(m), n))

Validate(n, m) ==
    IF n < 1 THEN Err(TooSmall(n))
    ELSE IF Len(m) = n
         THEN LET unfitting_amount == ScanRows(m, n, 0, <<>>)
              IN  IF unfitting_amount # <<>>
                  THEN Err(UnfittingCoefficientAmount(unfitting_amount[1], n))
                  ELSE Ok(n, m)
         ELSE Err(UnfittingEquationAmount(Len(m), n))

(***************************************************************************)
(* convert (solver.rs:139-164)                                              *)
(***************************************************************************)
\* variant of SelectPivot that also exchanges on an equal absolute value
RECURSIVE SelectPivotOnTie(_, _, _, _, _)
SelectPivotOnTie(m, n, col, r, p) ==
    IF r >= n THEN [matrix |-> m, pivot |-> p]
    ELSE IF Gt(Abs(Get(m, r, col)), Abs(p)) \/ Abs(Get(m, r, col)) = Abs(p)
         THEN LET s == Swap(m, r, col)
              IN  SelectPivotOnTie(s, n, col, r + 1, Get(s, col, col))
         ELSE SelectPivotOnTie(m, n, col, r + 1, p)

\* variant of SelectPivot that finds the first largest row and exchanges once
SelectPivotOneSwap(m, n, col, r, p) ==
    LET rows == col..(n - 1)
        best == CHOOSE j \in rows :
                    /\ \A k \in rows : ~Gt(Abs(Get(m, k, col)), Abs(Get(m, j, col)))
                    /\ \A k \in col..(j - 1) :
                          \E l \in rows : Gt(Abs(Get(m, l, col)), Abs(Get(m, k, col)))
        s == Swap(m, best, col)
    IN  [matrix |-> s, pivot |-> Get(s, col, col)]

\* the pivot search of lines 145-150 for column col, from row r on, with the
\* current value p of the local variable pivot
RECURSIVE SelectPivot(_, _, _, _, _)
SelectPivot(m, n, col, r, p) ==
    IF r >= n THEN [matrix |-> m, pivot |-> p]
    ELSE IF Gt(Abs(Get(m, r, col)), Abs(p))
         THEN LET s == Swap(m, r, col)
              IN  SelectPivot(s, n, col, r + 1, Get(s, col, col))
         ELSE SelectPivot(m, n, col, r + 1, p)

\* variant of EliminateRow whose column loop starts one column late
EliminateRowLate(rowA, rowB, n, col, p) ==
    LET ratio == Div(rowB.coefficients[col + 1], p)
    IN  [coefficients |->
             [c \in 1..Len(rowB.coefficients) |->
                 IF c - 1 > col /\ c - 1 < n
                 THEN Sub(rowB.coefficients[c], Mul(rowA.coefficients[c], ratio))
                 ELSE rowB.coefficients[c]],
         result |-> Sub(rowB.result, Mul(rowA.result, ratio))]

\* lines 153-159 for one row b: rowA is self.matrix[a], rowB is self.matrix[b]
EliminateRow(rowA, rowB, n, col, p) ==
    LET ratio == Div(rowB.coefficients[col + 1], p)
    IN  [coefficients |->
             [c \in 1..Len(rowB.coefficients) |->
                 IF c - 1 >= col /\ c - 1 < n
                 THEN Sub(rowB.coefficients[c], Mul(rowA.coefficients[c], ratio))
                 ELSE rowB.coefficients[c]],
         result |-> Sub(rowB.result, Mul(rowA.result, ratio))]

\* the elimination loop of lines 152-160 for column col
Eliminate(m, n, col, p) ==
    [b \in 1..Len(m) |->
        IF b - 1 > col /\ b - 1 < n
        THEN EliminateRow(m[col + 1], m[b], n, col, p)
        ELSE m[b]]

(***************************************************************************)
(* solve (solver.rs:166-199)                                                *)
(***************************************************************************)
\* variant of NormalizeRow that leaves the result undivided
NormalizeRowKeepResult(row, n, divisor) ==
    [coefficients |->
         [j \in 1..Len(row.coefficients) |->
             IF j - 1 < n THEN Div(row.coefficients[j], divisor)
             ELSE row.coefficients[j]],
     result |-> row.result]

\* lines 179-184: row r divided by divisor
NormalizeRow(row, n, divisor) ==
    [coefficients |->
         [j \in 1..Len(row.coefficients) |->
             IF j - 1 < n THEN Div(row.coefficients[j], divisor)
             ELSE row.coefficients[j]],
     result |-> Div(row.result, divisor)]

\* lines 188-194 for one row j: rowI is the normalized self.matrix[i]
BackEliminateRow(rowI, rowJ, n, r) ==
    LET factor == rowJ.coefficients[r + 1]
    IN  [coefficients |->
             [k \in 1..Len(rowJ.coefficients) |->
                 IF k - 1 < n
                 THEN Sub(rowJ.coefficients[k], Mul(rowI.coefficients[k], factor))
                 ELSE rowJ.coefficients[k]],
         result |-> Sub(rowJ.result, Mul(rowI.result, factor))]

\* lines 178-195: one iteration of the outer loop with a nonzero divisor
ReduceRow(m, n, r) ==
    LET rowI == NormalizeRow(m[r + 1], n, Get(m, r, r))
    IN  [j \in 1..Len(m) |->
            IF j - 1 = r THEN rowI
            ELSE IF j - 1 < r THEN BackEliminateRow(rowI, m[j], n, r)
            ELSE m[j]]

\* variant of ZeroDivisorError with the two failures exchanged
ZeroDivisorErrorSwapped(m, r) ==
    IF IsZero(GetResult(m, r)) THEN EmptySolutionSet ELSE DependentSolutionSet

\* lines 170-176: the failure returned for a zero divisor in row r
ZeroDivisorError(m, r) ==
    IF IsZero(GetResult(m, r)) THEN DependentSolutionSet ELSE EmptySolutionSet

(***************************************************************************)
(* The equations the callers append                                         *)
(***************************************************************************)
\* integer vectors of length len whose absolute values sum to at most w
RECURSIVE Vectors(_, _)
Vectors(len, w) ==
    IF len = 0 THEN {<<>>}
    ELSE UNION {{<<v>> \o t : t \in Vectors(len - 1, w - AbsInt(v))} : v \in -w..w}

RECURSIVE SumAbs(_)
SumAbs(xs) == IF xs = <<>> THEN 0 ELSE AbsInt(Head(xs)[1]) + SumAbs(Tail(xs))

\* the sum of the absolute values of the (integer) entries of the rows of m
RECURSIVE WeightOf(_)
WeightOf(m) ==
    IF m = <<>> THEN 0
    ELSE SumAbs(Head(m).coefficients) + AbsInt(Head(m).result[1]) + WeightOf(Tail(m))

\* equations of n integer coefficients and an integer result, of weight <= w
SystemRows(n, w) ==
    {Equation([c \in 1..n |-> FromInt(v[c])], FromInt(v[n + 1])) :
        v \in Vectors(n + 1, w)}

\* such equations whose first r coefficients are zero: row r of an
\* upper-triangular matrix
TriangularRows(n, r, w) ==
    {Equation([c \in 1..n |-> IF c <= r THEN Zero ELSE FromInt(v[c - r])],
              FromInt(v[n - r + 1])) :
        v \in Vectors(n - r + 1, w)}

\* equations of any length up to MaxN + 1, all entries one: validate reads
\* the lengths only
ShapeRows == {Equation([c \in 1..len |-> One], One) : len \in 0..(MaxN + 1)}

(***************************************************************************)
(* Actions                                                                  *)
(***************************************************************************)
NoRet == [validate |-> None, convert |-> None, solve |-> None]

\* CoefficientMatrix::new(n) (solver.rs:105-110): no rows yet
InitNew ==
    /\ size \in 0..MaxN
    /\ matrix = <<>>
    /\ pc = "build"
    /\ ret = NoRet
    /\ a = 0
    /\ phase = "select"
    /\ pivot = Zero
    /\ i = size - 1
    /\ given = <<>>
    /\ before = <<>>

\* add_equation (solver.rs:112-115) with an equation out of rows
AddEquationOf(rows) ==
    /\ pc = "build"
    /\ \E equation \in rows : matrix' = Append(matrix, equation)
    /\ given' = matrix'
    /\ UNCHANGED <<size, pc, ret, a, phase, pivot, i, before>>

\* add_equation with an equation of any length, up to MaxN + 1 equations
AddEquation ==
    /\ Len(matrix) <= MaxN
    /\ AddEquationOf(ShapeRows)

\* add_equation with an equation of size coefficients (MatrixSolver::add_eq,
\* lib.rs:49-54), up to size equations of total weight MaxWeight
AddSystemEquation ==
    /\ Len(matrix) < size
    /\ AddEquationOf(SystemRows(size, MaxWeight - WeightOf(matrix)))

\* add_equation with the next row of an upper-triangular matrix
AddTriangularEquation ==
    /\ Len(matrix) < size
    /\ AddEquationOf(TriangularRows(size, Len(matrix), MaxWeight - WeightOf(matrix)))

\* validate (solver.rs:117-136); on Ok the caller goes on to the stage next,
\* on Err its unwrap ends the run
ValidateThen(next) ==
    /\ pc = "build"
    /\ ret' = [ret EXCEPT !.validate = Validate(size, matrix)]
    /\ pc' = IF ret'.validate.tag = "Ok" THEN next ELSE "end"
    /\ UNCHANGED <<size, matrix, a, phase, pivot, i, given, before>>

\* validate().unwrap().convert() (lib.rs:59-61)
ValidateCall == ValidateThen("convert")

\* validate().unwrap().solve() (solver.rs:236-237)
ValidateSolveCall == ValidateThen("solve")

\* convert, lines 142-150: pivot selection for column a
ConvertSelect ==
    /\ pc = "convert"
    /\ phase = "select"
    /\ a < size - 1
    /\ LET s == SelectPivot(matrix, size, a, a + 1, Get(matrix, a, a))
       IN  /\ matrix' = s.matrix
           /\ pivot' = s.pivot
    /\ before' = matrix
    /\ phase' = "eliminate"
    /\ UNCHANGED <<size, pc, ret, a, i, given>>

\* convert, lines 152-160: elimination below the pivot of column a
ConvertEliminate ==
    /\ pc = "convert"
    /\ phase = "eliminate"
    /\ matrix' = Eliminate(matrix, size, a, pivot)
    /\ a' = a + 1
    /\ phase' = "select"
    /\ UNCHANGED <<size, pc, ret, pivot, i, given, before>>

\* convert, line 163: Ok(self); the pipeline goes on to solve
ConvertReturn ==
    /\ pc = "convert"
    /\ phase = "select"
    /\ a >= size - 1
    /\ ret' = [ret EXCEPT !.convert = Ok(size, matrix)]
    /\ pc' = "solve"
    /\ UNCHANGED <<size, matrix, a, phase, pivot, i, given, before>>

\* solve, lines 167-196: one iteration of the loop over the rows
SolveRow ==
    /\ pc = "solve"
    /\ i >= 0
    /\ IF IsZero(Get(matrix, i, i))
       THEN /\ ret' = [ret EXCEPT !.solve = Err(ZeroDivisorError(matrix, i))]
            /\ pc' = "end"
            /\ UNCHANGED <<matrix, i>>
       ELSE /\ matrix' = ReduceRow(matrix, size, i)
            /\ i' = i - 1
            /\ UNCHANGED <<ret, pc>>
    /\ UNCHANGED <<size, a, phase, pivot, given, before>>

\* solve, line 198: Ok(self)
SolveReturn ==
    /\ pc = "solve"
    /\ i < 0
    /\ ret' = [ret EXCEPT !.solve = Ok(size, matrix)]
    /\ pc' = "end"
    /\ UNCHANGED <<size, matrix, a, phase, pivot, i, given, before>>

(***************************************************************************)
(* Specifications                                                           *)
(***************************************************************************)
NextValidate == AddEquation \/ ValidateCall

\* building a matrix of any shape and validating it
SpecValidate == InitNew /\ [][NextValidate]_vars

NextSolve ==
    \/ AddTriangularEquation
    \/ ValidateSolveCall
    \/ SolveRow
    \/ SolveReturn

\* building an upper-triangular matrix, validating it and calling solve
SpecSolve == InitNew /\ [][NextSolve]_vars

Next ==
    \/ AddSystemEquation
    \/ ValidateCall
    \/ ConvertSelect
    \/ ConvertEliminate
    \/ ConvertReturn
    \/ SolveRow
    \/ SolveReturn

\* building a system and running the pipeline validate, convert, solve on it
Spec == InitNew /\ [][Next]_vars

(***************************************************************************)
(* Properties of validate, checked under SpecValidate                       *)
(***************************************************************************)
\* the coefficient count of the row at index r
RowLen(r) == Len(matrix[r + 1].coefficients)

\* the indices of the rows whose coefficient count differs from size
Unfitting == {r \in 0..(Len(matrix) - 1) : RowLen(r) # size}

Validated == ret.validate.tag # "None"

\* C6: validate checks the size first, then the row count, then the row
\* lengths: size 0 gives TooSmall(0) whatever the rows, a row count other than
\* size gives UnfittingEquationAmount(row count, size) whatever the row
\* lengths, and UnfittingCoefficientAmount is returned only when size >= 1 and
\* the row count equals size.
C6_ValidateOrder ==
    Validated =>
        /\ size = 0 => ret.validate = Err(TooSmall(0))
        /\ (size >= 1 /\ Len(matrix) # size) =>
               ret.validate = Err(UnfittingEquationAmount(Len(matrix), size))
        /\ (/\ ret.validate.tag = "Err"
            /\ ret.validate.err.kind = "UnfittingCoefficientAmount") =>
               (size >= 1 /\ Len(matrix) = size)

\* size 0 with rows appended, rejected as TooSmall(0)
C6_Witness ==
    /\ Validated
    /\ size = 0
    /\ Len(matrix) >= 2
    /\ ret.validate = Err(TooSmall(0))

\* C7: with size >= 1, exactly size rows and some row of another length,
\* validate returns UnfittingCoefficientAmount(L, size) where L is the length
\* of the highest-index unfitting row.
C7_LastUnfittingRow ==
    (Validated /\ size >= 1 /\ Len(matrix) = size /\ Unfitting # {}) =>
        LET last == CHOOSE r \in Unfitting : \A q \in Unfitting : q <= r
        IN  ret.validate = Err(UnfittingCoefficientAmount(RowLen(last), size))

\* two unfitting rows, the first too long and the last too short, and the
\* length of the last one is reported
C7_Witness ==
    /\ Validated
    /\ Len(matrix) = size
    /\ \E r, q \in Unfitting :
          /\ r < q
          /\ RowLen(r) > size
          /\ RowLen(q) < size
          /\ \A t \in Unfitting : t <= q
          /\ ret.validate = Err(UnfittingCoefficientAmount(RowLen(q), size))

\* C8: validate returns Ok exactly when size >= 1, there are size rows and
\* every row has size coefficients, and then it returns the matrix it was
\* given: same size, same rows in the same order.
C8_ValidateOk ==
    Validated =>
        /\ ret.validate.tag = "Ok" <=>
               (size >= 1 /\ Len(matrix) = size /\ Unfitting = {})
        /\ ret.validate.tag = "Ok" =>
               ret.validate.value = CoefficientMatrix(size, matrix)

\* a well-shaped matrix of at least two rows, accepted
C8_Witness ==
    /\ ret.validate.tag = "Ok"
    /\ size >= 2
    /\ ret.validate.value.matrix = matrix

(***************************************************************************)
(* Linear algebra used to state the properties of convert and solve.  All   *)
(* of it is over finite scalars (exact rationals).                          *)
(***************************************************************************)
Add(x, y) == Norm(x[1] * y[2] + y[1] * x[2], x[2] * y[2])

RECURSIVE SumSeq(_)
SumSeq(xs) == IF xs = <<>> THEN Zero ELSE Add(Head(xs), SumSeq(Tail(xs)))

\* the determinant of the square array M (a sequence of rows of scalars), by
\* expansion along the first row
RECURSIVE Det(_)
Det(M) ==
    IF Len(M) = 0 THEN One
    ELSE LET k == Len(M)
             Minor(c) == [r \in 1..(k - 1) |->
                             [d \in 1..(k - 1) |-> M[r + 1][IF d < c THEN d ELSE d + 1]]]
             Term(c) == Mul(IF c % 2 = 1 THEN M[1][c] ELSE Sub(Zero, M[1][c]),
                            Det(Minor(c)))
         IN  SumSeq([c \in 1..k |-> Term(c)])

RECURSIVE Sorted(_)
Sorted(S) ==
    IF S = {} THEN <<>>
    ELSE LET x == CHOOSE x \in S : \A y \in S : x <= y
         IN  <<x>> \o Sorted(S \ {x})

\* the rank of the array M with nc columns: the order of its largest square
\* subarray with a nonzero determinant
Rank(M, nc) ==
    LET HasMinor(k) ==
            \E R \in SUBSET (1..Len(M)) : \E C \in SUBSET (1..nc) :
                /\ Cardinality(R) = k
                /\ Cardinality(C) = k
                /\ LET rs == Sorted(R)
                       cs == Sorted(C)
                   IN  ~IsZero(Det([r \in 1..k |-> [c \in 1..k |-> M[rs[r]][cs[c]]]]))
    IN  CHOOSE k \in 0..Len(M) :
            /\ HasMinor(k)
            /\ \A l \in (k + 1)..Len(M) : ~HasMinor(l)

\* the coefficient block of a system, and the block extended by the results
CoefficientsOf(m) == [r \in 1..Len(m) |-> m[r].coefficients]

AugmentedOf(m) == [r \in 1..Len(m) |-> Append(m[r].coefficients, m[r].result)]

\* x (a sequence of scalars) satisfies every equation of the system m
Satisfies(m, x) ==
    \A r \in 1..Len(m) :
        SumSeq([k \in 1..Len(x) |-> Mul(m[r].coefficients[k], x[k])]) = m[r].result

HasUniqueSolution(m) == ~IsZero(Det(CoefficientsOf(m)))

\* Rouche-Capelli: a system has a solution iff the coefficient block and the
\* augmented block have the same rank, and then infinitely many iff that rank
\* is below the number of unknowns
HasNoSolution(m) ==
    Rank(CoefficientsOf(m), Len(m)) < Rank(AugmentedOf(m), Len(m) + 1)

HasInfinitelyManySolutions(m) ==
    /\ Rank(CoefficientsOf(m), Len(m)) = Rank(AugmentedOf(m), Len(m) + 1)
    /\ Rank(CoefficientsOf(m), Len(m)) < Len(m)

\* the solution of a system with a unique solution, by Cramer's rule
CramerSolution(m) ==
    LET A == CoefficientsOf(m)
        Replaced(k) == [r \in 1..Len(m) |->
                           [c \in 1..Len(m) |-> IF c = k THEN m[r].result ELSE A[r][c]]]
    IN  [k \in 1..Len(m) |-> Div(Det(Replaced(k)), Det(A))]

IsIdentity(m) ==
    \A r \in 1..Len(m) : \A c \in 1..Len(m) :
        m[r].coefficients[c] = IF r = c THEN One ELSE Zero

ResultsOf(m) == [r \in 1..Len(m) |-> m[r].result]

(***************************************************************************)
(* Properties of solve, checked under SpecSolve                             *)
(***************************************************************************)
\* solve has returned
Solved == pc = "end" /\ ret.validate.tag = "Ok"

\* the rows of the input system whose diagonal entry is zero
ZeroDiagonal == {r \in 0..(size - 1) : IsZero(Get(given, r, r))}

\* C1: on an upper-triangular matrix with a nonzero diagonal solve returns Ok
\* with a matrix whose coefficient block is the identity and whose result
\* column satisfies every equation of the input.
C1_SolveTriangular ==
    (Solved /\ ZeroDiagonal = {}) =>
        /\ ret.solve.tag = "Ok"
        /\ ret.solve.value.size = size
        /\ Len(ret.solve.value.matrix) = size
        /\ IsIdentity(ret.solve.value.matrix)
        /\ Satisfies(given, ResultsOf(ret.solve.value.matrix))

\* a solved system of at least two equations in which back-elimination
\* removed an entry above the diagonal and changed the result of its row
C1_Witness ==
    /\ Solved
    /\ ZeroDiagonal = {}
    /\ size >= 2
    /\ ret.solve.tag = "Ok"
    /\ ~IsZero(Get(given, 0, 1))
    /\ Get(given, 0, 0) = One
    /\ ret.solve.value.matrix[1].result # given[1].result

\* C4: solve processes the rows from the last to the first; at the first row
\* whose diagonal entry is zero when the row is reached it returns
\* DependentSolutionSet if the row's result is zero at that time and
\* EmptySolutionSet otherwise, with no matrix; it returns Ok exactly when no
\* row it processes has a zero diagonal entry.  On an upper-triangular input
\* the diagonal entries reached are those of the input, so the failing row is
\* the last row of the input with a zero diagonal entry.
C4_SolveOutcome ==
    /\ pc = "solve" => (i \in -1..(size - 1) /\ \A r \in ZeroDiagonal : r <= i)
    /\ Solved =>
        /\ ret.solve.tag = "Ok" <=> ZeroDiagonal = {}
        /\ ret.solve.tag = "Ok" =>
              (i = -1 /\ ret.solve.value = CoefficientMatrix(size, matrix))
        /\ ret.solve.tag # "Ok" =>
              /\ i \in ZeroDiagonal
              /\ \A r \in ZeroDiagonal : r <= i
              /\ IsZero(Get(matrix, i, i))
              /\ \A r \in (i + 1)..(size - 1) : Get(matrix, r, r) = One
              /\ ret.solve =
                    IF IsZero(GetResult(matrix, i))
                    THEN Err(DependentSolutionSet)
                    ELSE Err(EmptySolutionSet)

\* a failure at a row above the last one whose result was zero in the input and
\* is nonzero when the row is reached
C4_Witness ==
    /\ Solved
    /\ ret.solve = Err(EmptySolutionSet)
    /\ i < size - 1
    /\ IsZero(GetResult(given, i))
    /\ ~IsZero(GetResult(matrix, i))

\* C5 as claimed: on an upper-triangular input, DependentSolutionSet is
\* returned only for a system with infinitely many solutions and
\* EmptySolutionSet only for a system with no solution.
C5_Classification ==
    (Solved /\ ret.solve.tag = "Err") =>
        /\ ret.solve.err = DependentSolutionSet => HasInfinitelyManySolutions(given)
        /\ ret.solve.err = EmptySolutionSet => HasNoSolution(given)

(***************************************************************************)
(* Properties of convert and of the pipeline, checked under Spec            *)
(***************************************************************************)
\* convert has returned
Converted == pc \in {"solve", "end"} /\ ret.validate.tag = "Ok"

\* C2: for a validated system with a unique solution convert returns Ok with
\* a matrix of the same dimension whose entries below the diagonal are zero
\* and whose system has the same solution set as the input (it has a unique
\* solution too, and the input's solution satisfies it).
C2_ConvertTriangular ==
    (Converted /\ HasUniqueSolution(given)) =>
        /\ ret.convert.tag = "Ok"
        /\ ret.convert.value.size = size
        /\ Len(ret.convert.value.matrix) = size
        /\ LET converted == ret.convert.value.matrix
           IN  /\ \A r \in 1..size : Len(converted[r].coefficients) = size
               /\ \A r \in 1..size : \A c \in 1..(r - 1) :
                      IsZero(converted[r].coefficients[c])
               /\ HasUniqueSolution(converted)
               /\ Satisfies(converted, CramerSolution(given))

\* a system of three equations with a unique solution whose rows convert
\* exchanged and reduced
C2_Witness ==
    /\ Converted
    /\ size = 3
    /\ HasUniqueSolution(given)
    /\ ret.convert.tag = "Ok"
    /\ ret.convert.value.matrix[1] # given[1]
    /\ \E r \in 1..size : \A q \in 1..size : ret.convert.value.matrix[r] # given[q]

\* C3 as claimed: a validated system without a unique solution never comes
\* out of convert and solve as Ok; the pipeline ends in DependentSolutionSet
\* or EmptySolutionSet.
C3_SingularRejected ==
    (Solved /\ ~HasUniqueSolution(given)) =>
        /\ ret.solve.tag = "Err"
        /\ ret.solve.err \in {DependentSolutionSet, EmptySolutionSet}

\* the candidate rows of the pivot selection for column a
Candidates == a..(size - 1)

\* |before[r][a]|, the magnitude the selection compared
Magnitude(r) == Abs(Get(before, r, a))

\* the candidates no other candidate exceeds
Maximal == {j \in Candidates : \A k \in Candidates : ~Gt(Magnitude(k), Magnitude(j))}

FirstMaximal == CHOOSE j \in Maximal : \A k \in Maximal : j <= k

Selected == pc = "convert" /\ phase = "eliminate"

C10_SingleExchange ==
    Selected =>
        \/ matrix = before
        \/ matrix = Swap(before, FirstMaximal, a)

\* the rows below a whose entry exceeds that of every candidate before them
IsRunningMaximum(r) ==
    r > a /\ \A k \in a..(r - 1) : Gt(Magnitude(r), Magnitude(k))

\* the last running maximum before row r, or a when there is none
PreviousMaximum(r) ==
    CHOOSE k \in a..(r - 1) :
        /\ k = a \/ IsRunningMaximum(k)
        /\ \A l \in (k + 1)..(r - 1) : ~IsRunningMaximum(l)

\* C10 amended: the selection exchanges the row at position a, in turn, with
\* every row below it whose column-a entry is larger in absolute value than
\* the entries of all candidate rows before it.  So rows 0..a-1 and every row
\* that is no such running maximum stay where they were, the position of each
\* running maximum receives the row that was the running maximum before it
\* (the row of position a for the first), position a receives the last one,
\* and the order is unchanged if no row below a has a larger absolute entry
\* than row a.
C10_ExchangePerRunningMaximum ==
    Selected =>
        /\ Len(matrix) = Len(before)
        /\ \A r \in 0..(size - 1) :
              /\ (r # a /\ ~IsRunningMaximum(r)) => matrix[r + 1] = before[r + 1]
              /\ IsRunningMaximum(r) => matrix[r + 1] = before[PreviousMaximum(r) + 1]
        /\ matrix[a + 1] = before[PreviousMaximum(size) + 1]
        /\ (\A r \in (a + 1)..(size - 1) : ~Gt(Magnitude(r), Magnitude(a))) =>
              matrix = before

\* a selection with two exchanges: three rows end at other positions
C10_Witness ==
    /\ Selected
    /\ size = 3
    /\ a = 0
    /\ IsRunningMaximum(1)
    /\ IsRunningMaximum(2)
    /\ matrix = <<before[3], before[1], before[2]>>

====
